---- MODULE Spec2Model ----
(***************************************************************************)
(* Net Worth Tracker (src/app.py): a Streamlit script over one SQLite      *)
(* table.  Every run of the script executes main(): init_db(), then the    *)
(* selected view (Dashboard, Assets, Liabilities).  The Assets and         *)
(* Liabilities views hold a form that validates name and amount and then   *)
(* calls insert_entry; every view ends by reading the table back.          *)
(*                                                                         *)
(* Python str values that the code inspects or encodes (the entry name,    *)
(* field names, type strings, detail values, JSON text) are sequences of   *)
(* one-character strings.  kind, category, subcategory, currency and owner *)
(* are only stored and compared, and are TLA+ strings.                     *)
(***************************************************************************)
EXTENDS Integers, Sequences, FiniteSets, TLC

(* ---------------- bounds of the model ---------------- *)
MaxEntries == 2        \* rows the table may hold
MaxClock == 1          \* seconds the wall clock may advance

(* ---------------- state ---------------- *)
VARIABLES
    table_exists,     \* networth.db holds the table entries
    entries,          \* the rows of the table, in rowid order
    sqlite_sequence,  \* AUTOINCREMENT: the largest id given out so far
    now,              \* CURRENT_TIMESTAMP, in whole seconds
    view,             \* what ran last
    submission,       \* <<the form as submitted in that run>>, or <<>>
    message,          \* st.error / st.success of that run
    totals,           \* <<total_assets, total_liabilities, net_worth>> of that run, or <<>>
    query,            \* the arguments of the run's get_entries call
    rows,             \* what that call returned
    calls,            \* every insert_entry call so far: its arguments, and the
                      \* detail widgets' input they were rendered from
    pc,               \* per session thread: where it stands in a call of
                      \* insert_entry or get_totals made on its own
    local,            \* per session thread: the locals of that call
    reserved,         \* the thread whose connection holds the RESERVED lock, or 0
    shared,           \* the threads whose connections hold a SHARED lock
    log,              \* every committed INSERT: the thread and the row
    window            \* per thread in get_totals: the totals of every state the
                      \* store has been in since the call started

\* the state of the threads that call the database helpers side by side
threads == <<pc, local, reserved, shared, log, window>>

vars == <<table_exists, entries, sqlite_sequence, now, view, submission,
          message, totals, query, rows, calls, threads>>

(* Python None / SQL NULL *)
None == "None"

(* ---------------- str helpers ---------------- *)
\* str.startswith
StartsWith(s, prefix) ==
    /\ Len(s) >= Len(prefix)
    /\ SubSeq(s, 1, Len(prefix)) = prefix

\* position of the first occurrence of the character sep in s, 0 when absent
RECURSIVE FindFrom(_, _, _)
FindFrom(s, sep, i) ==
    IF i > Len(s) THEN 0
    ELSE IF s[i] = sep THEN i
    ELSE FindFrom(s, sep, i + 1)

\* str.split(sep): every piece between occurrences of sep
RECURSIVE Split(_, _)
Split(s, sep) ==
    LET p == FindFrom(s, sep, 1)
    IN  IF p = 0 THEN <<s>>
        ELSE <<SubSeq(s, 1, p - 1)>> \o Split(SubSeq(s, p + 1, Len(s)), sep)

\* str.split(sep, 1): at most one cut
Split1(s, sep) ==
    LET p == FindFrom(s, sep, 1)
    IN  IF p = 0 THEN <<s>>
        ELSE <<SubSeq(s, 1, p - 1), SubSeq(s, p + 1, Len(s))>>

\* bool(s) of a str: the empty string alone is falsy
Truthy(s) == s # <<>>

(* ---------------- 1. data model / field schemas ---------------- *)
TypeText == <<"t", "e", "x", "t">>
TypeNumber == <<"n", "u", "m", "b", "e", "r">>
TypeDate == <<"d", "a", "t", "e">>
SelectPrefix == <<"s", "e", "l", "e", "c", "t", ":">>

\* The part of the two schema dictionaries that the model carries: three
\* subcategories, between them holding every field type of the source.
\* A schema is the source's list of (field_name, label, type_str).
StockOptionsSchema ==
    << << <<"e", "m", "p", "l", "o", "y", "e", "r">>, "Employer", TypeText >>,
       << <<"p", "l", "a", "n", "_", "t", "y", "p", "e">>, "Plan type",
          SelectPrefix \o <<"R", "S", "U", ",", "O", "p", "t", "i", "o", "n", ",",
                            "E", "S", "P", "P", ",", "P", "S", "U">> >>,
       << <<"g", "r", "a", "n", "t", "_", "d", "a", "t", "e">>, "Grant date", TypeDate >>,
       << <<"v", "e", "s", "t", "i", "n", "g", "_", "s", "c", "h", "e", "d", "u", "l", "e">>,
          "Vesting schedule (text)", TypeText >> >>

MoneyMarketSchema ==
    << << <<"p", "r", "o", "v", "i", "d", "e", "r">>, "Fund / provider", TypeText >>,
       << <<"i", "s", "i", "n">>, "ISIN / code", TypeText >> >>

SecuritiesBackedSchema ==
    << << <<"b", "a", "n", "k">>, "Bank", TypeText >>,
       << <<"f", "a", "c", "i", "l", "i", "t", "y", "_", "l", "i", "m", "i", "t">>,
          "Facility limit", TypeNumber >> >>

ASSET_SCHEMAS ==
    ("Cash & Cash-like" :> ("Money market / cash fund" :> MoneyMarketSchema))
    @@ ("Retirement & Employment-linked" :> ("Stock options / RSUs" :> StockOptionsSchema))

LIABILITY_SCHEMAS ==
    ("Investment & Trading Leverage" :> ("Securities-backed lending" :> SecuritiesBackedSchema))

ASSET_CATEGORIES == DOMAIN ASSET_SCHEMAS
LIABILITY_CATEGORIES == DOMAIN LIABILITY_SCHEMAS

Kinds == {"asset", "liability"}
Schemas(kind) == IF kind = "asset" THEN ASSET_SCHEMAS ELSE LIABILITY_SCHEMAS

(* ---------------- Python values held in a details dict ---------------- *)
PyStr(s) == [t |-> "str", s |-> s]
PyFloat(n) == [t |-> "float", n |-> n]     \* n counts tenths: 15 is 1.5

\* dict: insertion-ordered sequence of <<key, value>>; d[k] = v overwrites
DictKeys(d) == {d[i][1] : i \in 1..Len(d)}
DictGet(d, k) == d[CHOOSE i \in 1..Len(d) : d[i][1] = k][2]
DictSet(d, k, v) ==
    IF k \in DictKeys(d)
    THEN [i \in 1..Len(d) |-> IF d[i][1] = k THEN <<k, v>> ELSE d[i]]
    ELSE Append(d, <<k, v>>)

(* ---------------- decimal digits ---------------- *)
DigitChars == <<"0", "1", "2", "3", "4", "5", "6", "7", "8", "9">>
DigitChar(d) == DigitChars[d + 1]
IsDigit(c) == \E d \in 0..9 : DigitChars[d + 1] = c
DigitVal(c) == CHOOSE d \in 0..9 : DigitChars[d + 1] = c

\* str(n) of a non-negative int
RECURSIVE IntToStr(_)
IntToStr(n) ==
    IF n < 10 THEN <<DigitChar(n)>>
    ELSE Append(IntToStr(n \div 10), DigitChar(n % 10))

\* n zero-padded to at least w digits ("%04d", "%02d")
RECURSIVE ZeroPad(_, _)
ZeroPad(s, w) == IF Len(s) >= w THEN s ELSE ZeroPad(<<"0">> \o s, w)

\* datetime.date.isoformat(): YYYY-MM-DD of a date <<year, month, day>>
isoformat(d) ==
    ZeroPad(IntToStr(d[1]), 4) \o <<"-">> \o ZeroPad(IntToStr(d[2]), 2)
        \o <<"-">> \o ZeroPad(IntToStr(d[3]), 2)

\* repr of a float counted in tenths: 15 -> 1.5, 0 -> 0.0
float_repr(n) == IntToStr(n \div 10) \o <<".">> \o <<DigitChar(n % 10)>>

(* ---------------- json.dumps / json.loads ---------------- *)
Quote == "\""
Backslash == "\\"

\* json_escape with the escaping left out
json_escape_none(s) == s

\* the JSON string escape of the characters the model's strings hold
RECURSIVE json_escape(_)
json_escape(s) ==
    IF s = <<>> THEN <<>>
    ELSE (IF Head(s) = Quote \/ Head(s) = Backslash
          THEN <<Backslash, Head(s)>>
          ELSE <<Head(s)>>) \o json_escape(Tail(s))

json_encode_str(s) == <<Quote>> \o json_escape(s) \o <<Quote>>

json_encode_value(v) ==
    IF v.t = "str" THEN json_encode_str(v.s)
    ELSE IF v.t = "float" THEN float_repr(v.n)
    ELSE IntToStr(v.n)

\* the members of an object, joined by the default item separator ", "
RECURSIVE json_members(_)
json_members(d) ==
    IF d = <<>> THEN <<>>
    ELSE json_encode_str(Head(d)[1]) \o <<":", " ">> \o json_encode_value(Head(d)[2])
         \o (IF Tail(d) = <<>> THEN <<>> ELSE <<",", " ">> \o json_members(Tail(d)))

\* json.dumps of a dict with str keys
json_dumps(d) == <<"{">> \o json_members(d) \o <<"}">>

\* json.loads: a scanner over the text; every step yields [ok, val, pos],
\* pos being the index of the first character not yet consumed.
JsonFail == [ok |-> FALSE, val |-> None, pos |-> 0]

RECURSIVE SkipWs(_, _)
SkipWs(s, i) == IF i <= Len(s) /\ s[i] = " " THEN SkipWs(s, i + 1) ELSE i

\* the characters of a string literal from position i (after the opening quote)
RECURSIVE ScanString(_, _, _)
ScanString(s, i, acc) ==
    IF i > Len(s) THEN JsonFail
    ELSE IF s[i] = Quote THEN [ok |-> TRUE, val |-> PyStr(acc), pos |-> i + 1]
    ELSE IF s[i] = Backslash
         THEN IF i + 1 <= Len(s) /\ (s[i + 1] = Quote \/ s[i + 1] = Backslash)
              THEN ScanString(s, i + 2, Append(acc, s[i + 1]))
              ELSE JsonFail
    ELSE ScanString(s, i + 1, Append(acc, s[i]))

\* the value of the digits from position i: [n, pos]
RECURSIVE ScanDigits(_, _, _)
ScanDigits(s, i, acc) ==
    IF i <= Len(s) /\ IsDigit(s[i])
    THEN ScanDigits(s, i + 1, acc * 10 + DigitVal(s[i]))
    ELSE [n |-> acc, pos |-> i]

\* digits alone parse to an int; digits "." digit parse to a float
ScanNumber(s, i) ==
    LET whole == ScanDigits(s, i, 0)
    IN  IF whole.pos = i THEN JsonFail
        ELSE IF whole.pos <= Len(s) /\ s[whole.pos] = "."
        THEN LET frac == ScanDigits(s, whole.pos + 1, 0)
             IN  IF frac.pos # whole.pos + 2 THEN JsonFail
                 ELSE [ok |-> TRUE, val |-> PyFloat(whole.n * 10 + frac.n), pos |-> frac.pos]
        ELSE [ok |-> TRUE, val |-> [t |-> "int", n |-> whole.n], pos |-> whole.pos]

ScanValue(s, i) ==
    IF i > Len(s) THEN JsonFail
    ELSE IF s[i] = Quote THEN ScanString(s, i + 1, <<>>)
    ELSE ScanNumber(s, i)

\* the members of an object from position i, up to and including "}"
RECURSIVE ScanMembers(_, _, _)
ScanMembers(s, i, acc) ==
    LET k0 == SkipWs(s, i)
        key == IF k0 <= Len(s) /\ s[k0] = Quote THEN ScanString(s, k0 + 1, <<>>) ELSE JsonFail
        c0 == IF key.ok THEN SkipWs(s, key.pos) ELSE 0
        val == IF key.ok /\ c0 <= Len(s) /\ s[c0] = ":"
               THEN ScanValue(s, SkipWs(s, c0 + 1)) ELSE JsonFail
        e0 == IF val.ok THEN SkipWs(s, val.pos) ELSE 0
        d == IF val.ok THEN DictSet(acc, key.val.s, val.val) ELSE acc
    IN  IF ~val.ok \/ e0 > Len(s) THEN JsonFail
        ELSE IF s[e0] = "}" THEN [ok |-> TRUE, val |-> d, pos |-> e0 + 1]
        ELSE IF s[e0] = "," THEN ScanMembers(s, e0 + 1, d)
        ELSE JsonFail

\* json.loads of an object text; JSONDecodeError is [ok |-> FALSE]
json_loads(s) ==
    LET i == SkipWs(s, 1)
        body == IF i <= Len(s) /\ s[i] = "{"
                THEN (IF SkipWs(s, i + 1) <= Len(s) /\ s[SkipWs(s, i + 1)] = "}"
                      THEN [ok |-> TRUE, val |-> <<>>, pos |-> SkipWs(s, i + 1) + 1]
                      ELSE ScanMembers(s, i + 1, <<>>))
                ELSE JsonFail
    IN  IF body.ok /\ SkipWs(s, body.pos) = Len(s) + 1 THEN body ELSE JsonFail

(* ---------------- 2. database helpers ---------------- *)
\* CREATE TABLE IF NOT EXISTS entries: the rows of the table after init_db
init_db(exists, tbl) == IF exists THEN tbl ELSE <<>>

\* insert_entry as INSERT OR REPLACE under a fixed id: the row takes the
\* place of the one stored before
insert_entry_replace(tbl, seq, clock, kind, category, subcategory, name, currency, amount, owner, details) ==
    <<[id |-> 1, kind |-> kind, category |-> category, subcategory |-> subcategory,
       name |-> name, currency |-> currency, amount |-> amount, owner |-> owner,
       details_json |-> json_dumps(details), created_at |-> clock]>>

\* insert_entry with the kind column a constant: every row is stored as an asset
insert_entry_as_asset(tbl, seq, clock, kind, category, subcategory, name, currency, amount, owner, details) ==
    Append(tbl, [id |-> seq + 1, kind |-> "asset", category |-> category,
                 subcategory |-> subcategory, name |-> name, currency |-> currency,
                 amount |-> amount, owner |-> owner,
                 details_json |-> json_dumps(details), created_at |-> clock])

\* INSERT INTO entries: id from AUTOINCREMENT (one more than the largest id
\* ever given out), created_at from DEFAULT CURRENT_TIMESTAMP (whole seconds)
insert_entry(tbl, seq, clock, kind, category, subcategory, name, currency, amount, owner, details) ==
    Append(tbl, [id |-> seq + 1,
                 kind |-> kind,
                 category |-> category,
                 subcategory |-> subcategory,
                 name |-> name,
                 currency |-> currency,
                 amount |-> amount,
                 owner |-> owner,
                 details_json |-> json_dumps(details),
                 created_at |-> clock])

\* SUM(amount) ... WHERE kind=k.  A nullable SQL value is <<>> (NULL) or <<v>>;
\* SUM over no rows is NULL.
RECURSIVE SqlSum(_, _)
SqlSum(tbl, k) ==
    IF tbl = <<>> THEN <<>>
    ELSE LET rest == SqlSum(Tail(tbl), k)
         IN  IF Head(tbl).kind # k THEN rest
             ELSE IF rest = <<>> THEN <<Head(tbl).amount>>
             ELSE <<Head(tbl).amount + rest[1]>>

Coalesce(v, dflt) == IF v = <<>> THEN dflt ELSE v[1]
\* Python's "x or 0.0"
OrZero(v) == IF v = 0 THEN 0 ELSE v

\* get_totals with the second query a copy of the first
get_totals_same_kind(tbl) ==
    <<Coalesce(SqlSum(tbl, "asset"), 0), Coalesce(SqlSum(tbl, "asset"), 0)>>

get_totals(tbl) ==
    LET total_assets == OrZero(Coalesce(SqlSum(tbl, "asset"), 0))
        total_liabilities == OrZero(Coalesce(SqlSum(tbl, "liability"), 0))
    IN  <<total_assets, total_liabilities>>

\* "if kind:" / "if category:": None and the empty string add no condition
FilterGiven(f) == f # None /\ f # ""

\* the two conditions joined by OR
RECURSIVE SelectWhereAny(_, _, _)
SelectWhereAny(tbl, kind, category) ==
    IF tbl = <<>> THEN <<>>
    ELSE LET r == Head(tbl)
             keep == \/ (FilterGiven(kind) /\ r.kind = kind)
                     \/ (FilterGiven(category) /\ r.category = category)
                     \/ (~FilterGiven(kind) /\ ~FilterGiven(category))
         IN  (IF keep THEN <<r>> ELSE <<>>) \o SelectWhereAny(Tail(tbl), kind, category)

\* WHERE 1=1 [AND kind=?] [AND category=?], rows in rowid order
RECURSIVE SelectWhere(_, _, _)
SelectWhere(tbl, kind, category) ==
    IF tbl = <<>> THEN <<>>
    ELSE LET r == Head(tbl)
             keep == /\ (FilterGiven(kind) => r.kind = kind)
                     /\ (FilterGiven(category) => r.category = category)
         IN  (IF keep THEN <<r>> ELSE <<>>) \o SelectWhere(Tail(tbl), kind, category)

\* one row put into a sequence already in created_at DESC order, behind the
\* rows it ties with
RECURSIVE InsertDesc(_, _)
InsertDesc(sorted, r) ==
    IF sorted = <<>> THEN <<r>>
    ELSE IF Head(sorted).created_at >= r.created_at
         THEN <<Head(sorted)>> \o InsertDesc(Tail(sorted), r)
         ELSE <<r>> \o sorted

RECURSIVE SortDesc(_, _)
SortDesc(scan, acc) ==
    IF scan = <<>> THEN acc ELSE SortDesc(Tail(scan), InsertDesc(acc, Head(scan)))

\* ORDER BY created_at DESC, the only sort key.  SQLite scans the table in
\* rowid order and sorts the scan in a temporary b-tree keyed by created_at
\* and the scan position, so rows with equal created_at keep the scan order.
OrderByCreatedAtDesc(sel) == SortDesc(sel, <<>>)

Reverse(s) == [i \in 1..Len(s) |-> s[Len(s) + 1 - i]]

\* get_entries with an order that turns with the second of the call
get_entries_by_call_time(tbl, kind, category) ==
    IF now % 2 = 0
    THEN OrderByCreatedAtDesc(SelectWhere(tbl, kind, category))
    ELSE Reverse(OrderByCreatedAtDesc(SelectWhere(tbl, kind, category)))

get_entries(tbl, kind, category) ==
    OrderByCreatedAtDesc(SelectWhere(tbl, kind, category))

(* ---------------- 3. form rendering ---------------- *)
\* what the widgets hand back for what the user did with them
selectbox(options, index) == options[index]
text_input(typed) == typed
number_input(typed) == typed
date_input(picked) == picked

\* the options split off before the "select:" prefix is cut
select_options_keep_prefix(type_str) == Split(type_str, ",")

select_options(type_str) == Split(Split1(type_str, ":")[2], ",")

\* the value render_detail_fields stores for one field
field_value(type_str, input) ==
    IF StartsWith(type_str, SelectPrefix)
    THEN PyStr(selectbox(select_options(type_str), input))
    ELSE IF type_str = TypeText THEN PyStr(text_input(input))
    ELSE IF type_str = TypeNumber THEN PyFloat(number_input(input))
    ELSE IF type_str = TypeDate THEN PyStr(isoformat(date_input(input)))
    ELSE PyStr(text_input(input))

\* render_detail_fields: input[i] is what the user did with the widget of
\* the i-th field; the result is the dict of field_name -> value
RECURSIVE render_fields_from(_, _, _, _)
render_fields_from(schema, input, i, values) ==
    IF i > Len(schema) THEN values
    ELSE render_fields_from(schema, input, i + 1,
             DictSet(values, schema[i][1], field_value(schema[i][3], input[i])))

\* render_detail_fields leaving out the fields whose value is the empty string
RECURSIVE render_skipping_blank(_, _, _, _)
render_skipping_blank(schema, input, i, values) ==
    IF i > Len(schema) THEN values
    ELSE LET v == field_value(schema[i][3], input[i])
         IN  render_skipping_blank(schema, input, i + 1,
                 IF v = PyStr(<<>>) THEN values ELSE DictSet(values, schema[i][1], v))

render_detail_fields_skip_blank(schema, input) == render_skipping_blank(schema, input, 1, <<>>)

render_detail_fields(schema, input) == render_fields_from(schema, input, 1, <<>>)

(* ---------------- what the user can enter ---------------- *)
min_value == 0                        \* number_input(..., min_value=0.0)
Today == <<2026, 11, 2>>              \* date.today(), the date widget's default

NameInputs == {<<>>, <<" ">>, <<"A">>}
AmountInputs == {a \in {-5, 0, 40, 100} : a >= min_value}

\* a widget left as rendered
DefaultInput(type_str) ==
    IF StartsWith(type_str, SelectPrefix) THEN 1
    ELSE IF type_str = TypeNumber THEN 0
    ELSE IF type_str = TypeDate THEN Today
    ELSE <<>>

\* a widget the user changed
ChangedInput(type_str) ==
    IF StartsWith(type_str, SelectPrefix) THEN Len(select_options(type_str))
    ELSE IF type_str = TypeNumber THEN 15
    ELSE IF type_str = TypeDate THEN <<2027, 1, 9>>
    ELSE <<"D", Quote, Backslash>>

\* the forms the model submits.  Either the currency, owner and detail
\* widgets are left as rendered and the user types a name ("A") or none and
\* an amount (100) or none; or every widget is changed, the name is a single
\* space and the amount is 40 or left at 0.
FormInputs(schema) ==
    {[name |-> n, currency |-> "SGD", owner |-> "You", amount |-> a,
      input |-> [i \in 1..Len(schema) |-> DefaultInput(schema[i][3])]]
        : n \in NameInputs \ {<<" ">>}, a \in AmountInputs \ {40}}
    \cup
    {[name |-> <<" ">>, currency |-> "USD", owner |-> "", amount |-> a,
      input |-> [i \in 1..Len(schema) |-> ChangedInput(schema[i][3])]]
        : a \in AmountInputs \ {100}}

\* the Streamlit session threads, one per browser session; none is inside a
\* database helper
Threads == {1, 2}
NoLocals == [op |-> "none"]
InitThreads ==
    /\ pc = [c \in Threads |-> "idle"]
    /\ local = [c \in Threads |-> NoLocals]
    /\ reserved = 0
    /\ shared = {}
    /\ log = <<>>
    /\ window = [c \in Threads |-> {}]

Init ==
    /\ table_exists = FALSE
    /\ entries = <<>>
    /\ sqlite_sequence = 0
    /\ now = 0
    /\ view = "none"
    /\ submission = <<>>
    /\ message = "none"
    /\ totals = <<>>
    /\ query = [kind |-> None, category |-> None]
    /\ rows = <<>>
    /\ calls = <<>>
    /\ InitThreads

(* ---------------- 4. Streamlit UI: one run of main() per action ---------------- *)
\* validate with "amount < 0" for "amount <= 0"
validate_negative_only(name, amount) ==
    IF ~Truthy(name) THEN "EmptyName"
    ELSE IF amount < 0 THEN "NonPositiveAmount"
    ELSE "Saved"

\* validate with the amount looked at before the name
validate_amount_first(name, amount) ==
    IF amount <= 0 THEN "NonPositiveAmount"
    ELSE IF ~Truthy(name) THEN "EmptyName"
    ELSE "Saved"

\* the if / elif / else on a submitted form
validate(name, amount) ==
    IF ~Truthy(name) THEN "EmptyName"
    ELSE IF amount <= 0 THEN "NonPositiveAmount"
    ELSE "Saved"

Dashboard ==
    LET tbl == init_db(table_exists, entries)
        t == get_totals(tbl)
    IN  /\ table_exists' = TRUE
        /\ entries' = tbl
        /\ totals' = <<t[1], t[2], t[1] - t[2]>>
        /\ query' = [kind |-> None, category |-> None]
        /\ rows' = get_entries(tbl, None, None)
        /\ view' = "Dashboard"
        /\ submission' = <<>>
        /\ message' = "none"
        /\ UNCHANGED <<sqlite_sequence, now, calls, threads>>

\* the Assets and the Liabilities branch: the form, then the listing
FormView(kind, category, subcategory, submitted, f) ==
    LET schema == Schemas(kind)[category][subcategory]
        details == render_detail_fields(schema, f.input)
        tbl == init_db(table_exists, entries)
        verdict == validate(f.name, f.amount)
        saves == submitted /\ verdict = "Saved"
        after == IF saves
                 THEN insert_entry(tbl, sqlite_sequence, now, kind, category, subcategory,
                                   f.name, f.currency, f.amount, f.owner, details)
                 ELSE tbl
    IN  /\ saves => Len(tbl) < MaxEntries
        /\ table_exists' = TRUE
        /\ entries' = after
        /\ sqlite_sequence' = IF saves THEN sqlite_sequence + 1 ELSE sqlite_sequence
        /\ calls' = IF saves
                    THEN Append(calls, [kind |-> kind, category |-> category,
                                        subcategory |-> subcategory, name |-> f.name,
                                        currency |-> f.currency, amount |-> f.amount,
                                        owner |-> f.owner, input |-> f.input,
                                        details |-> details])
                    ELSE calls
        /\ submission' = IF submitted
                         THEN <<[kind |-> kind, category |-> category,
                                 subcategory |-> subcategory, form |-> f]>>
                         ELSE <<>>
        /\ message' = IF submitted THEN verdict ELSE "none"
        /\ totals' = <<>>
        /\ query' = [kind |-> kind, category |-> category]
        /\ rows' = get_entries(after, kind, category)
        /\ UNCHANGED <<now, threads>>

\* the forms of every subcategory of a kind
Forms(schemas) ==
    [category \in DOMAIN schemas |->
        [subcategory \in DOMAIN schemas[category] |-> FormInputs(schemas[category][subcategory])]]
AssetForms == Forms(ASSET_SCHEMAS)
LiabilityForms == Forms(LIABILITY_SCHEMAS)

\* a run of the Assets view: the form submitted, or the page only redrawn
Assets ==
    \E category \in ASSET_CATEGORIES :
      \E subcategory \in DOMAIN ASSET_SCHEMAS[category] :
        \/ \E f \in AssetForms[category][subcategory] :
             /\ FormView("asset", category, subcategory, TRUE, f)
             /\ view' = "Assets"
        \/ \E f \in {CHOOSE g \in AssetForms[category][subcategory] : TRUE} :
             /\ FormView("asset", category, subcategory, FALSE, f)
             /\ view' = "Assets"

\* a run of the Liabilities view
Liabilities ==
    \E category \in LIABILITY_CATEGORIES :
      \E subcategory \in DOMAIN LIABILITY_SCHEMAS[category] :
        \/ \E f \in LiabilityForms[category][subcategory] :
             /\ FormView("liability", category, subcategory, TRUE, f)
             /\ view' = "Liabilities"
        \/ \E f \in {CHOOSE g \in LiabilityForms[category][subcategory] : TRUE} :
             /\ FormView("liability", category, subcategory, FALSE, f)
             /\ view' = "Liabilities"

\* get_entries called on its own, with any of its optional filters
GetEntries ==
    \E kind \in {None} \cup Kinds :
      \E category \in {None} \cup ASSET_CATEGORIES \cup LIABILITY_CATEGORIES :
        /\ table_exists
        /\ query' = [kind |-> kind, category |-> category]
        /\ rows' = get_entries(entries, kind, category)
        /\ view' = "get_entries"
        /\ submission' = <<>>
        /\ message' = "none"
        /\ totals' = <<>>
        /\ UNCHANGED <<table_exists, entries, sqlite_sequence, now, calls, threads>>

\* a second passes.  Only INSERT reads the clock, and only the order and the
\* equality of created_at values are ever looked at, so seconds are counted
\* from the one in which the first row is stored.
Tick ==
    /\ entries # <<>>
    /\ now < MaxClock
    /\ now' = now + 1
    /\ UNCHANGED <<table_exists, entries, sqlite_sequence, view, submission,
                   message, totals, query, rows, calls, threads>>

Next == Dashboard \/ Assets \/ Liabilities \/ GetEntries \/ Tick

Spec == Init /\ [][Next]_vars

(* ---------------- 5. the database helpers called side by side ---------------- *)
(* Streamlit runs main() in one thread per browser session, and every       *)
(* helper opens a connection of its own to networth.db (rollback journal,   *)
(* the default).  A step below is one call into sqlite3.  The file locks:   *)
(* a SELECT holds SHARED from execute until its last row is fetched; an     *)
(* INSERT takes RESERVED at execute and changes pages of its own connection *)
(* only; commit needs every other connection's SHARED lock gone and then    *)
(* writes those pages to the file.  A lock that is not granted is waited    *)
(* for (the thread takes no step) until, after connect's default timeout,   *)
(* the call raises OperationalError: database is locked.                    *)

\* the thread is in no helper: it has made no call, or its call has returned
\* or raised
Idle(c) ==
    pc[c] \in {"idle", "insert_entry:returned", "get_totals:returned", "OperationalError"}

\* a RESERVED lock granted whoever holds one
CanReserveAlways(holder, c) == TRUE

\* RESERVED is granted when no other connection holds it
CanReserve(holder, c) == holder \in {0, c}

\* the arguments the threads call insert_entry with: a form left as rendered
\* but for its name and amount, one of each kind
ThreadInputs ==
    {[kind |-> "asset", category |-> "Cash & Cash-like",
      subcategory |-> "Money market / cash fund", amount |-> 100],
     [kind |-> "liability", category |-> "Investment & Trading Leverage",
      subcategory |-> "Securities-backed lending", amount |-> 40]}

\* the threads inside get_totals
InTotals(c) ==
    pc[c] \in {"get_totals:assets", "get_totals:assets_fetched", "get_totals:liabilities"}

\* insert_entry: connect, cursor, execute.  The INSERT takes RESERVED, reads
\* sqlite_sequence and puts the row into the connection's own pages.
InsertExecute(c) ==
    \E a \in ThreadInputs :
      LET schema == Schemas(a.kind)[a.category][a.subcategory]
          f == CHOOSE g \in FormInputs(schema) : g.name = <<"A">> /\ g.amount = 100
          details == render_detail_fields(schema, f.input)
      IN  /\ Idle(c)
          /\ CanReserve(reserved, c)
          /\ Len(entries) < MaxEntries
          /\ reserved' = c
          /\ pc' = [pc EXCEPT ![c] = "insert_entry:execute"]
          /\ local' = [local EXCEPT ![c] =
                 [op |-> "insert_entry",
                  tbl |-> insert_entry(entries, sqlite_sequence, now, a.kind, a.category,
                                       a.subcategory, f.name, f.currency, a.amount,
                                       f.owner, details),
                  seq |-> sqlite_sequence + 1]]
          /\ window' = [window EXCEPT ![c] = {}]
          /\ UNCHANGED <<table_exists, entries, sqlite_sequence, now, view, submission,
                         message, totals, query, rows, calls, shared, log>>

\* execute while another connection holds RESERVED: the wait times out
InsertLocked(c) ==
    /\ Idle(c)
    /\ ~CanReserve(reserved, c)
    /\ pc' = [pc EXCEPT ![c] = "OperationalError"]
    /\ local' = [local EXCEPT ![c] = NoLocals]
    /\ window' = [window EXCEPT ![c] = {}]
    /\ UNCHANGED <<table_exists, entries, sqlite_sequence, now, view, submission,
                   message, totals, query, rows, calls, reserved, shared, log>>

\* conn.commit(): the connection's pages become the file's
InsertCommit(c) ==
    /\ pc[c] = "insert_entry:execute"
    /\ shared \ {c} = {}
    /\ entries' = local[c].tbl
    /\ sqlite_sequence' = local[c].seq
    /\ reserved' = 0
    /\ log' = Append(log, [thread |-> c, row |-> local[c].tbl[Len(local[c].tbl)]])
    /\ pc' = [pc EXCEPT ![c] = "insert_entry:commit"]
    /\ window' = [d \in Threads |->
                    IF InTotals(d) THEN window[d] \cup {get_totals(local[c].tbl)}
                    ELSE window[d]]
    /\ UNCHANGED <<table_exists, now, view, submission, message, totals, query, rows,
                   calls, local, shared>>

\* conn.commit() while a reader holds SHARED: the wait times out, the
\* exception leaves insert_entry and the dropped connection rolls back
CommitLocked(c) ==
    /\ pc[c] = "insert_entry:execute"
    /\ shared \ {c} # {}
    /\ reserved' = 0
    /\ pc' = [pc EXCEPT ![c] = "OperationalError"]
    /\ local' = [local EXCEPT ![c] = NoLocals]
    /\ UNCHANGED <<table_exists, entries, sqlite_sequence, now, view, submission,
                   message, totals, query, rows, calls, shared, log, window>>

\* conn.close(), and insert_entry returns
InsertClose(c) ==
    /\ pc[c] = "insert_entry:commit"
    /\ pc' = [pc EXCEPT ![c] = "insert_entry:returned"]
    /\ local' = [local EXCEPT ![c] =
           [op |-> "insert_entry", row |-> local[c].tbl[Len(local[c].tbl)]]]
    /\ UNCHANGED <<table_exists, entries, sqlite_sequence, now, view, submission,
                   message, totals, query, rows, calls, reserved, shared, log, window>>

\* get_totals: connect, cursor, execute of the first SELECT
TotalsAssets(c) ==
    /\ Idle(c)
    /\ shared' = shared \cup {c}
    /\ pc' = [pc EXCEPT ![c] = "get_totals:assets"]
    /\ local' = [local EXCEPT ![c] =
           [op |-> "get_totals",
            total_assets |-> OrZero(Coalesce(SqlSum(entries, "asset"), 0))]]
    /\ window' = [window EXCEPT ![c] = {get_totals(entries)}]
    /\ UNCHANGED <<table_exists, entries, sqlite_sequence, now, view, submission,
                   message, totals, query, rows, calls, reserved, log>>

\* c.fetchone() of the first SELECT: its only row is fetched, the statement
\* is done and its SHARED lock goes
TotalsAssetsFetched(c) ==
    /\ pc[c] = "get_totals:assets"
    /\ shared' = shared \ {c}
    /\ pc' = [pc EXCEPT ![c] = "get_totals:assets_fetched"]
    /\ UNCHANGED <<table_exists, entries, sqlite_sequence, now, view, submission,
                   message, totals, query, rows, calls, local, reserved, log, window>>

\* execute of the second SELECT, in a read transaction of its own
TotalsLiabilities(c) ==
    /\ pc[c] = "get_totals:assets_fetched"
    /\ shared' = shared \cup {c}
    /\ pc' = [pc EXCEPT ![c] = "get_totals:liabilities"]
    /\ local' = [local EXCEPT ![c] =
           [op |-> "get_totals",
            total_assets |-> local[c].total_assets,
            total_liabilities |-> OrZero(Coalesce(SqlSum(entries, "liability"), 0))]]
    /\ UNCHANGED <<table_exists, entries, sqlite_sequence, now, view, submission,
                   message, totals, query, rows, calls, reserved, log, window>>

\* c.fetchone(), conn.close(), and get_totals returns the pair
TotalsReturn(c) ==
    /\ pc[c] = "get_totals:liabilities"
    /\ shared' = shared \ {c}
    /\ pc' = [pc EXCEPT ![c] = "get_totals:returned"]
    /\ UNCHANGED <<table_exists, entries, sqlite_sequence, now, view, submission,
                   message, totals, query, rows, calls, local, reserved, log, window>>

\* the table is there: main() calls init_db before anything else
InitSessions ==
    /\ table_exists = TRUE
    /\ entries = <<>>
    /\ sqlite_sequence = 0
    /\ now = 0
    /\ view = "none"
    /\ submission = <<>>
    /\ message = "none"
    /\ totals = <<>>
    /\ query = [kind |-> None, category |-> None]
    /\ rows = <<>>
    /\ calls = <<>>
    /\ InitThreads

NextSessions ==
    \E c \in Threads :
        \/ InsertExecute(c)
        \/ InsertLocked(c)
        \/ InsertCommit(c)
        \/ CommitLocked(c)
        \/ InsertClose(c)
        \/ TotalsAssets(c)
        \/ TotalsAssetsFetched(c)
        \/ TotalsLiabilities(c)
        \/ TotalsReturn(c)

SpecSessions == InitSessions /\ [][NextSessions]_vars

(* ======================= properties ======================= *)
\* the form submitted by the last run, as a set of at most one element
Submitted == {submission[i] : i \in 1..Len(submission)}

\* str.strip() of the blank the model's names hold
RECURSIVE LStrip(_)
LStrip(s) == IF s # <<>> /\ Head(s) = " " THEN LStrip(Tail(s)) ELSE s
RECURSIVE RStrip(_)
RStrip(s) == IF s # <<>> /\ s[Len(s)] = " " THEN RStrip(SubSeq(s, 1, Len(s) - 1)) ELSE s
Strip(s) == RStrip(LStrip(s))

\* C1, as claimed: every submission whose amount is <= 0 is answered with the
\* non-positive-amount error, whatever its name.
C1_AlwaysAmountError ==
    \A sub \in Submitted : sub.form.amount <= 0 => message = "NonPositiveAmount"

\* C1, amended: a run that submits an amount <= 0 rejects it and leaves the
\* table as it was; the error is the non-positive-amount error when the name
\* is not the empty string and the empty-name error when it is.
C1_NonPositiveRejected ==
    [][\A i \in 1..Len(submission') :
          submission'[i].form.amount <= 0 =>
              /\ entries' = entries
              /\ calls' = calls
              /\ message' = IF submission'[i].form.name = <<>>
                            THEN "EmptyName" ELSE "NonPositiveAmount"]_vars

\* a form with a name and the amount left at 0 was rejected over a table that holds rows
C1_Witness ==
    /\ Len(entries) >= 1
    /\ message = "NonPositiveAmount"
    /\ \E sub \in Submitted : sub.form.amount <= 0 /\ sub.form.name # <<>>

\* C2, as claimed: a submission whose name is empty after trimming
\* surrounding whitespace is rejected and nothing is persisted, so every
\* stored entry has a name that is non-empty after trimming.
C2_BlankNameRejected ==
    /\ \A sub \in Submitted : Strip(sub.form.name) = <<>> => message # "Saved"
    /\ \A i \in 1..Len(entries) : Strip(entries[i].name) # <<>>

\* the sum of amount over the stored entries of one kind, by a fold over the
\* set of their positions
RECURSIVE SumAt(_)
SumAt(S) ==
    IF S = {} THEN 0
    ELSE LET i == CHOOSE j \in S : TRUE IN entries[i].amount + SumAt(S \ {i})
TotalOf(k) == SumAt({i \in 1..Len(entries) : entries[i].kind = k})

\* C3: the totals a Dashboard run shows are the sum of amount over the stored
\* assets and over the stored liabilities, of whatever currency, (0, 0) on an
\* empty table, and net worth is their difference; one asset of 100 and one
\* liability of 40 give (100, 40) and 60.
C3_Totals ==
    totals # <<>> =>
        /\ totals[1] = TotalOf("asset")
        /\ totals[2] = TotalOf("liability")
        /\ totals[3] = totals[1] - totals[2]
        /\ (entries = <<>> => totals = <<0, 0, 0>>)
        /\ ({<<entries[i].kind, entries[i].amount>> : i \in 1..Len(entries)}
                = {<<"asset", 100>>, <<"liability", 40>>} /\ Len(entries) = 2
            => totals = <<100, 40, 60>>)

\* the Dashboard over one asset of 100 and one liability of 40 in another currency
C3_Witness ==
    /\ totals = <<100, 40, 60>>
    /\ Len(entries) = 2
    /\ entries[1].currency # entries[2].currency

\* C4, as claimed: of any two rows get_entries returns, the one appended
\* later (the larger id) comes first, also when both carry the same created_at.
C4_NewestFirst ==
    \A i, j \in 1..Len(rows) : i < j => rows[i].id > rows[j].id

\* the entries that match the filters given, None standing for a filter left out
Matches(e, q) ==
    /\ (q.kind # None => e.kind = q.kind)
    /\ (q.category # None => e.category = q.category)

\* C5: get_entries returns exactly the stored entries that match every filter
\* given, each once: with both filters those of that kind and category, with
\* one those matching it, with none all of them.
C5_ExactlyMatching ==
    /\ {rows[j] : j \in 1..Len(rows)}
           = {entries[i] : i \in {k \in 1..Len(entries) : Matches(entries[k], query)}}
    /\ Cardinality({rows[j].id : j \in 1..Len(rows)}) = Len(rows)

\* a call with the kind filter alone returned some of the stored entries and left out others
C5_Witness ==
    /\ query.kind # None
    /\ query.category = None
    /\ Len(rows) >= 1
    /\ Len(rows) < Len(entries)

\* the field keys of the schema an entry's kind, category and subcategory resolve to
SchemaOf(e) == Schemas(e.kind)[e.category][e.subcategory]
SchemaKeys(schema) == {schema[j][1] : j \in 1..Len(schema)}

\* C6: the details of every stored entry decode to a mapping whose keys are
\* exactly the field keys of the entry's schema, each once, and a text field
\* the user left blank is stored as the empty string.
C6_DetailKeys ==
    \A i \in 1..Len(entries) :
        LET schema == SchemaOf(entries[i])
            dec == json_loads(entries[i].details_json)
        IN  /\ dec.ok
            /\ DictKeys(dec.val) = SchemaKeys(schema)
            /\ Len(dec.val) = Len(schema)
            /\ \A j \in 1..Len(schema) :
                   (schema[j][3] = TypeText /\ calls[i].input[j] = <<>>)
                       => DictGet(dec.val, schema[j][1]) = PyStr(<<>>)

\* a stock-options entry was stored with both of its text fields left blank
C6_Witness ==
    \E i \in 1..Len(entries) :
        /\ entries[i].subcategory = "Stock options / RSUs"
        /\ calls[i].input[1] = <<>>
        /\ calls[i].input[4] = <<>>

\* C7: the table is append-only: whatever runs, the rows stored before are
\* all still there afterwards, in place and with every field unchanged.
C7_AppendOnly ==
    [][/\ Len(entries') >= Len(entries)
       /\ SubSeq(entries', 1, Len(entries)) = entries]_vars

\* a Dashboard run (init_db, get_totals, get_entries) over a table that holds two rows
C7_Witness ==
    /\ view = "Dashboard"
    /\ Len(entries) = 2

\* C8: every row get_entries returns reproduces the arguments of the
\* insert_entry call that stored it: kind, category, subcategory, name,
\* currency, amount and owner as passed, and a details text that decodes to
\* the mapping passed.
C8_RoundTrip ==
    \A j \in 1..Len(rows) :
        LET r == rows[j]
            c == calls[r.id]
            dec == json_loads(r.details_json)
        IN  /\ r.kind = c.kind
            /\ r.category = c.category
            /\ r.subcategory = c.subcategory
            /\ r.name = c.name
            /\ r.currency = c.currency
            /\ r.amount = c.amount
            /\ r.owner = c.owner
            /\ dec.ok
            /\ dec.val = c.details

\* a returned row whose details hold a quote, a backslash and a float
C8_Witness ==
    \E j \in 1..Len(rows) :
        LET c == calls[rows[j].id]
        IN  /\ c.subcategory = "Securities-backed lending"
            /\ c.details[1][2] = PyStr(<<"D", Quote, Backslash>>)
            /\ c.details[2][2] = PyFloat(15)

DeclaredChoices(type_str) ==
    LET body == SubSeq(type_str, Len(SelectPrefix) + 1, Len(type_str))
        cuts == {0, Len(body) + 1} \cup {p \in 1..Len(body) : body[p] = ","}
    IN  {SubSeq(body, ab[1] + 1, ab[2] - 1) :
            ab \in {xy \in cuts \X cuts :
                      xy[1] < xy[2] /\ \A p \in cuts : ~(xy[1] < p /\ p < xy[2])}}

C11_NoIdRace ==
    /\ \A i, j \in 1..Len(entries) : i # j => entries[i].id # entries[j].id
    /\ Len(entries) = Len(log)
    /\ \A k \in 1..Len(log) :
         Cardinality({i \in 1..Len(entries) : entries[i] = log[k].row}) = 1
    /\ \A c \in Threads :
         pc[c] = "insert_entry:returned" =>
           \E k \in 1..Len(log) : log[k].thread = c /\ log[k].row = local[c].row

\* two calls overlap: one thread has committed and not yet returned, the
\* other has executed its INSERT behind it and not yet committed
C11_Witness ==
    \E c, d \in Threads :
        /\ c # d
        /\ pc[c] = "insert_entry:commit"
        /\ pc[d] = "insert_entry:execute"
        /\ Len(entries) = 1
        /\ Len(local[d].tbl) = 2

\* C12: the pair get_totals returns is the pair of per-kind sums of one state
\* the store was in between the call's start and its return.
C12_ConsistentSnapshot ==
    \A c \in Threads :
        pc[c] = "get_totals:returned" =>
          <<local[c].total_assets, local[c].total_liabilities>> \in window[c]

\* C13: a run that submits a form reports the first failure in the order
\* name, amount: the empty-name error alone when the name is empty and the
\* amount is <= 0, the non-positive-amount error alone when the name is not
\* empty and the amount is <= 0; and the run ends either with one error and
\* no row appended, or with success and exactly one row appended.
C13_FirstFailureWins ==
    [][\A i \in 1..Len(submission') :
          now' = now =>
            LET f == submission'[i].form
            IN  /\ (f.name = <<>> /\ f.amount <= 0) => message' = "EmptyName"
                /\ (f.name # <<>> /\ f.amount <= 0) => message' = "NonPositiveAmount"
                /\ \/ /\ message' \in {"EmptyName", "NonPositiveAmount"}
                      /\ entries' = entries
                   \/ /\ message' = "Saved"
                      /\ Len(entries') = Len(entries) + 1
                      /\ SubSeq(entries', 1, Len(entries)) = entries]_vars

\* a form with neither a name nor an amount was answered with the name error
\* over a table that holds a row
C13_Witness ==
    /\ Len(entries) >= 1
    /\ message = "EmptyName"
    /\ \E sub \in Submitted : sub.form.name = <<>> /\ sub.form.amount <= 0

\* C14: a run that accepts a submission of amount a raises the total of the
\* submission's kind by a and leaves the other total as it was (net worth
\* rises by a for an asset, falls by a for a liability); and no step lowers
\* either total.
C14_OwnTotalOnly ==
    [][LET before == get_totals(entries)
           after == get_totals(entries')
       IN  /\ after[1] >= before[1]
           /\ after[2] >= before[2]
           /\ \A i \in 1..Len(submission') :
                (now' = now /\ message' = "Saved") =>
                  LET a == submission'[i].form.amount
                  IN  IF submission'[i].kind = "asset"
                      THEN /\ after = <<before[1] + a, before[2]>>
                           /\ after[1] - after[2] = (before[1] - before[2]) + a
                      ELSE /\ after = <<before[1], before[2] + a>>
                           /\ after[1] - after[2] = (before[1] - before[2]) - a]_vars

\* a liability was accepted into a table that held an asset
C14_Witness ==
    /\ message = "Saved"
    /\ \E sub \in Submitted : sub.kind = "liability" /\ sub.form.amount > 0
    /\ Len(entries) = 2
    /\ entries[1].kind = "asset"
    /\ entries[2].kind = "liability"
====
